---------------------------- MODULE Spec2Model ----------------------------
(***************************************************************************)
(* Model of src/driveWithJoystick.py: the SpheroController session, its    *)
(* control loop and the Konami-code detector.                              *)
(*                                                                         *)
(* Units.  Axis values are in tenths (0.7 is 7, 0.2 is 2), voltages in     *)
(* hundredths of a volt (4.1 V is 410), times in seconds.  Headings are    *)
(* exact rationals in units of 1/Unit degree, Unit = 5^MaxCorrections, so  *)
(* that the 0.2 factor of the auto-straighten step stays exact for as many *)
(* corrections as the model allows (binary floating point rounding is not  *)
(* modelled).                                                              *)
(***************************************************************************)
EXTENDS Integers, Sequences, FiniteSets, TLC

\* ------------------------------------------------------------------ bounds
MaxCorrections == 1
MaxTime == 60
TimeStep == 15
MaxTrim == 2

Unit == 5 ^ MaxCorrections
Deg(d) == d * Unit

\* ------------------------------------------------------- program constants
BUTTONS == [b1 |-> 0, b2 |-> 1, b3 |-> 2, b4 |-> 3, L1 |-> 4, R1 |-> 5,
            L2 |-> 6, R2 |-> 7, SELECT |-> 8, START |-> 9, UP |-> 10,
            DOWN |-> 11, LEFT |-> 12, RIGHT |-> 13, B |-> 14, A |-> 15]

ButtonIds == 0..15

KONAMI_CODE == << BUTTONS.UP, BUTTONS.UP, BUTTONS.DOWN, BUTTONS.DOWN,
                  BUTTONS.LEFT, BUTTONS.RIGHT, BUTTONS.LEFT, BUTTONS.RIGHT,
                  BUTTONS.B, BUTTONS.A >>

BATTERY_CHECK_INTERVAL == 30
HEADING_ADJUSTMENT == 5
DEADZONE == 7
TIGHT_DEADZONE == 2
STRAIGHTEN_TOLERANCE == 3
TURN_ANGLE == 22
CHEAT_SPEED == 255
INITIAL_SPEED == 50

Red == <<255, 0, 0>>
Green == <<0, 255, 0>>
Yellow == <<255, 255, 0>>
Orange == <<255, 100, 0>>
Purple == <<255, 0, 255>>
Preset1Color == <<255, 200, 0>>
Preset2Color == <<255, 100, 0>>
Preset3Color == <<255, 50, 0>>
Preset4Color == <<255, 0, 0>>
LedUnset == <<0, 0, 0>>

LED_PATTERNS(player) == IF player \in 1..5 THEN player ELSE 0

Abs(n) == IF n < 0 THEN -n ELSE n

VARIABLES
    pc,                 \* position of the process: "start", "main", "joystick",
                        \* "discovered", "connected", "loop", "crashed", "exited"
    exit_status,        \* status of the process once it has ended, -1 while running
    message,            \* the last line printed during startup
    toy,                \* self.toy is set
    player_id,
    speed, color, base_heading, is_running, calibration_mode, game_on,
    last_battery_check, game_start_time, konami_index, cheat_mode,
    now,                \* time.time()
    buttons, x_axis, y_axis,   \* joystick state seen by the last tick
    cmds,               \* the actuator calls of the last step, in order
    front_led,          \* the robot's front LED
    events,             \* calls of activate_cheat_mode in the last tick
    corrections,        \* auto-straighten corrections applied so far
    script,             \* the buttons fed so far by the detector harness
    script_events       \* calls of activate_cheat_mode since the script began

vars == << pc, exit_status, message, toy, player_id, speed, color,
           base_heading, is_running, calibration_mode, game_on, last_battery_check,
           game_start_time, konami_index, cheat_mode, now, buttons, x_axis,
           y_axis, cmds, front_led, events, corrections, script,
           script_events >>

\* ------------------------------------------------------------ the session
\* The session as a record: the fields of SpheroController, the robot's LED,
\* the call log of the step in progress, the index of the call that fails in
\* this step (0: none) and whether an exception is in flight.
Session == [speed |-> speed, color |-> color, base_heading |-> base_heading,
            calibration_mode |-> calibration_mode, game_on |-> game_on,
            last_battery_check |-> last_battery_check,
            game_start_time |-> game_start_time,
            konami_index |-> konami_index, cheat_mode |-> cheat_mode,
            front_led |-> front_led, cmds |-> << >>, fail |-> 0, exc |-> FALSE,
            events |-> 0, corrected |-> 0]

\* One call of the actuator: logged, and raising when it is the failing call.
Call(s, op, arg) ==
    LET ok == (Len(s.cmds) + 1) # s.fail
    IN  [s EXCEPT !.cmds = Append(@, [op |-> op, arg |-> arg, ok |-> ok]),
                  !.exc = ~ok]

SetFrontLed(s, c) ==
    LET s1 == Call(s, "set_front_led", c)
    IN  IF s1.exc THEN s1 ELSE [s1 EXCEPT !.front_led = c]

\* try: ... except Exception: print(...)
Caught(s) == [s EXCEPT !.exc = FALSE]

\* move with the heading passed on as computed.
move_unwrapped(s, heading, spd) ==
    LET s1 == Call(s, "set_heading", heading)
    IN  IF s1.exc THEN s1 ELSE Call(s1, "set_speed", spd)

move(s, heading, spd) ==
    LET s1 == Call(s, "set_heading", heading % Deg(360))
    IN  IF s1.exc THEN s1 ELSE Call(s1, "set_speed", spd)

enter_calibration(s, x) ==
    LET s1 == Call([s EXCEPT !.calibration_mode = TRUE], "set_speed", 0)
        s2 == IF s1.exc THEN s1 ELSE SetFrontLed(s1, Red)
        d  == IF x < -DEADZONE THEN -Deg(HEADING_ADJUSTMENT)
              ELSE IF x > DEADZONE THEN Deg(HEADING_ADJUSTMENT) ELSE 0
        s3 == [s2 EXCEPT !.base_heading = @ + d]
    IN  IF s2.exc THEN s2 ELSE Call(s3, "set_heading", s3.base_heading)

\* exit_calibration without the modulo.
exit_calibration_unnormalized(s, t) ==
    LET s1 == SetFrontLed([s EXCEPT !.calibration_mode = FALSE], Green)
    IN  IF s1.exc THEN s1
        ELSE [s1 EXCEPT !.game_on = TRUE, !.game_start_time = t]

exit_calibration(s, t) ==
    LET s1 == SetFrontLed([s EXCEPT !.calibration_mode = FALSE], Green)
    IN  IF s1.exc THEN s1
        ELSE [s1 EXCEPT !.base_heading = @ % Deg(360), !.game_on = TRUE,
                        !.game_start_time = t]

toggle_calibration(s, x, t) ==
    IF ~s.calibration_mode THEN enter_calibration(s, x)
    ELSE exit_calibration(s, t)

\* The bands with <= for <.
BatteryColorInclusive(voltage) ==
    LET c0 == Green
        c1 == IF voltage <= 410 THEN Yellow ELSE c0
        c2 == IF voltage <= 390 THEN Orange ELSE c1
        c3 == IF voltage <= 370 THEN Red ELSE c2
    IN  c3

BatteryColor(voltage) ==
    LET c0 == Green
        c1 == IF voltage < 410 THEN Yellow ELSE c0
        c2 == IF voltage < 390 THEN Orange ELSE c1
        c3 == IF voltage < 370 THEN Red ELSE c2
    IN  c3

check_battery(s, voltage) ==
    LET s1 == Call(s, "get_battery_voltage", voltage)
    IN  IF s1.exc THEN Caught(s1)
        ELSE Caught(SetFrontLed(s1, BatteryColor(voltage)))

\* activate_cheat_mode leaving the speed at its preset.
activate_cheat_mode_keeps_speed(s) ==
    SetFrontLed([s EXCEPT !.cheat_mode = TRUE, !.events = @ + 1], Purple)

activate_cheat_mode(s) ==
    SetFrontLed([s EXCEPT !.cheat_mode = TRUE, !.speed = CHEAT_SPEED,
                          !.events = @ + 1], Purple)

\* KonamiPress leaving the cursor where it is on a mismatch.
KonamiPressKeepsCursor(s, btn_id) ==
    IF s.konami_index >= Len(KONAMI_CODE) THEN [s EXCEPT !.exc = TRUE]
    ELSE IF btn_id = KONAMI_CODE[s.konami_index + 1]
    THEN LET s1 == [s EXCEPT !.konami_index = @ + 1]
         IN  IF s1.konami_index = Len(KONAMI_CODE)
             THEN LET s2 == activate_cheat_mode(s1)
                  IN  IF s2.exc THEN s2 ELSE [s2 EXCEPT !.konami_index = 0]
             ELSE s1
    ELSE s

\* KonamiPress without the reset of the cursor after a full match.
KonamiPressNoRearm(s, btn_id) ==
    IF s.konami_index >= Len(KONAMI_CODE) THEN [s EXCEPT !.exc = TRUE]
    ELSE IF btn_id = KONAMI_CODE[s.konami_index + 1]
    THEN LET s1 == [s EXCEPT !.konami_index = @ + 1]
         IN  IF s1.konami_index = Len(KONAMI_CODE)
             THEN activate_cheat_mode(s1)
             ELSE s1
    ELSE [s EXCEPT !.konami_index = 0]

\* KonamiPress taking a mismatching button as a possible start of the
\* sequence.
KonamiPressRetest(s, btn_id) ==
    IF s.konami_index >= Len(KONAMI_CODE) THEN [s EXCEPT !.exc = TRUE]
    ELSE IF btn_id = KONAMI_CODE[s.konami_index + 1]
    THEN LET s1 == [s EXCEPT !.konami_index = @ + 1]
         IN  IF s1.konami_index = Len(KONAMI_CODE)
             THEN LET s2 == activate_cheat_mode(s1)
                  IN  IF s2.exc THEN s2 ELSE [s2 EXCEPT !.konami_index = 0]
             ELSE s1
    ELSE [s EXCEPT !.konami_index = IF btn_id = KONAMI_CODE[1] THEN 1 ELSE 0]

\* One pressed button against the cursor.  A read of KONAMI_CODE past its end
\* raises IndexError.
KonamiPress(s, btn_id) ==
    IF s.konami_index >= Len(KONAMI_CODE) THEN [s EXCEPT !.exc = TRUE]
    ELSE IF btn_id = KONAMI_CODE[s.konami_index + 1]
    THEN LET s1 == [s EXCEPT !.konami_index = @ + 1]
         IN  IF s1.konami_index = Len(KONAMI_CODE)
             THEN LET s2 == activate_cheat_mode(s1)
                  IN  IF s2.exc THEN s2 ELSE [s2 EXCEPT !.konami_index = 0]
             ELSE s1
    ELSE [s EXCEPT !.konami_index = 0]

\* The pressed buttons taken in the reverse order, ids descending.
RECURSIVE KonamiFromDescending(_, _, _)
KonamiFromDescending(s, btn_id, pressed) ==
    IF btn_id > 15 \/ s.exc THEN s
    ELSE KonamiFromDescending(IF (15 - btn_id) \in pressed
                              THEN KonamiPress(s, 15 - btn_id) ELSE s,
                              btn_id + 1, pressed)

\* for btn_name, btn_id in BUTTONS.items(): the table's order, ids ascending.
RECURSIVE KonamiFrom(_, _, _)
KonamiFrom(s, btn_id, pressed) ==
    IF btn_id > 15 \/ s.exc THEN s
    ELSE KonamiFrom(IF btn_id \in pressed THEN KonamiPress(s, btn_id) ELSE s,
                    btn_id + 1, pressed)

check_konami_code(s, pressed) == KonamiFrom(s, 0, pressed)

\* The presets without the cheat-mode test.
SpeedPresetsInCheatMode(s, pressed) ==
    IF BUTTONS.b1 \in pressed
    THEN [s EXCEPT !.speed = 50, !.color = Preset1Color]
    ELSE IF BUTTONS.b2 \in pressed
    THEN [s EXCEPT !.speed = 70, !.color = Preset2Color]
    ELSE IF BUTTONS.b3 \in pressed
    THEN [s EXCEPT !.speed = 100, !.color = Preset3Color]
    ELSE IF BUTTONS.b4 \in pressed
    THEN [s EXCEPT !.speed = 200, !.color = Preset4Color]
    ELSE s

\* The presets as four independent tests: the last one held wins.
SpeedPresetsLastWins(s, pressed) ==
    IF s.cheat_mode THEN s
    ELSE IF BUTTONS.b4 \in pressed
    THEN [s EXCEPT !.speed = 200, !.color = Preset4Color]
    ELSE IF BUTTONS.b3 \in pressed
    THEN [s EXCEPT !.speed = 100, !.color = Preset3Color]
    ELSE IF BUTTONS.b2 \in pressed
    THEN [s EXCEPT !.speed = 70, !.color = Preset2Color]
    ELSE IF BUTTONS.b1 \in pressed
    THEN [s EXCEPT !.speed = 50, !.color = Preset1Color]
    ELSE s

SpeedPresets(s, pressed) ==
    IF s.cheat_mode THEN s
    ELSE IF BUTTONS.b1 \in pressed
    THEN [s EXCEPT !.speed = 50, !.color = Preset1Color]
    ELSE IF BUTTONS.b2 \in pressed
    THEN [s EXCEPT !.speed = 70, !.color = Preset2Color]
    ELSE IF BUTTONS.b3 \in pressed
    THEN [s EXCEPT !.speed = 100, !.color = Preset3Color]
    ELSE IF BUTTONS.b4 \in pressed
    THEN [s EXCEPT !.speed = 200, !.color = Preset4Color]
    ELSE s

\* The movement step without the calibration branch: the trim is applied on
\* entry only.
MovementControlEntryOnly(s, x, y) ==
    IF Abs(y) > DEADZONE
    THEN move(s, IF y < 0 THEN s.base_heading ELSE s.base_heading + Deg(180),
              s.speed)
    ELSE IF Abs(x) > DEADZONE
    THEN move(s, s.base_heading + (IF x > 0 THEN Deg(TURN_ANGLE)
                                   ELSE -Deg(TURN_ANGLE)), 0)
    ELSE Call(s, "set_speed", 0)

MovementControl(s, x, y) ==
    IF s.calibration_mode THEN enter_calibration(s, x)
    ELSE IF Abs(y) > DEADZONE
    THEN move(s, IF y < 0 THEN s.base_heading ELSE s.base_heading + Deg(180),
              s.speed)
    ELSE IF Abs(x) > DEADZONE
    THEN move(s, s.base_heading + (IF x > 0 THEN Deg(TURN_ANGLE)
                                   ELSE -Deg(TURN_ANGLE)), 0)
    ELSE Call(s, "set_speed", 0)

\* The auto-straighten step taking off the whole error at once.
AutoStraightenWholeError(s, x, y, current_heading) ==
    IF s.cheat_mode /\ Abs(y) > DEADZONE /\ Abs(x) < TIGHT_DEADZONE
    THEN LET s1 == Call(s, "get_heading", current_heading)
             delta == current_heading - s.base_heading
         IN  IF s1.exc THEN s1
             ELSE IF Abs(delta) > Deg(STRAIGHTEN_TOLERANCE)
             THEN LET s2 == [s1 EXCEPT !.base_heading = @ - delta,
                                       !.corrected = 1]
                  IN  Call(s2, "set_heading", s2.base_heading)
             ELSE s1
    ELSE s

\* correction = -delta * 0.2, exact: delta is a multiple of 5 units as long as
\* fewer than MaxCorrections corrections were applied.
AutoStraighten(s, x, y, current_heading) ==
    IF s.cheat_mode /\ Abs(y) > DEADZONE /\ Abs(x) < TIGHT_DEADZONE
    THEN LET s1 == Call(s, "get_heading", current_heading)
             delta == current_heading - s.base_heading
         IN  IF s1.exc THEN s1
             ELSE IF Abs(delta) > Deg(STRAIGHTEN_TOLERANCE)
             THEN LET s2 == [s1 EXCEPT !.base_heading = @ - (delta \div 5),
                                       !.corrected = 1]
                  IN  Call(s2, "set_heading", s2.base_heading)
             ELSE s1
    ELSE s

display_number(s, player) ==
    Caught(Call(s, "set_matrix_character", << LED_PATTERNS(player), s.color >>))

\* The battery step stamping the time only after a check that succeeded.
BatteryStepRetrying(s, t, voltage) ==
    IF t - s.last_battery_check >= BATTERY_CHECK_INTERVAL
    THEN LET s1 == check_battery(s, voltage)
         IN  IF s1.cmds[Len(s1.cmds)].ok
             THEN [s1 EXCEPT !.last_battery_check = t]
             ELSE s1
    ELSE s

BatteryStep(s, t, voltage) ==
    IF t - s.last_battery_check >= BATTERY_CHECK_INTERVAL
    THEN [check_battery(s, voltage) EXCEPT !.last_battery_check = t]
    ELSE s

\* One iteration of the while loop of control_loop, on the session s with the
\* joystick state (pressed, x, y), at time t; voltage and current_heading are
\* what the robot answers if asked.  The result has exc set when an exception
\* leaves the loop.
LoopBody(s, pressed, x, y, t, voltage, current_heading, player) ==
    LET s1 == BatteryStep(s, t, voltage)
        s2 == check_konami_code(s1, pressed)
        s3 == IF s2.exc THEN s2 ELSE SpeedPresets(s2, pressed)
        s4 == IF s3.exc THEN s3 ELSE MovementControl(s3, x, y)
        s5 == IF s4.exc THEN s4 ELSE AutoStraighten(s4, x, y, current_heading)
        s6 == IF s5.exc THEN s5 ELSE display_number(s5, player)
    IN  s6


\* ------------------------------------------------------------ environment
PresetIds == {BUTTONS.b1, BUTTONS.b2, BUTTONS.b3, BUTTONS.b4}
KonamiIds == {KONAMI_CODE[i] : i \in 1..Len(KONAMI_CODE)}

\* The sets of buttons held in one tick: none, any single button, any set of
\* preset buttons, a preset button with the first or the last button of the
\* sequence, two sequence buttons, and every button at once.
ButtonSets ==
    {{}} \cup {{b} : b \in ButtonIds} \cup SUBSET PresetIds
    \cup {{p, k} : p \in PresetIds, k \in {BUTTONS.UP, BUTTONS.A}}
    \cup {{j, k} : j \in KonamiIds, k \in KonamiIds}
    \cup {ButtonIds}

XValues == {-10, -7, 0, 1, 2, 10}
YValues == {-10, 0, 7, 10}
Voltages == {360, 369, 370, 389, 390, 409, 410, 420}
HeadingReads == {Deg(0), Deg(3), Deg(10)}
PlayerIds == {3}
DriveButtonSets == {{}, {BUTTONS.b2}}
FailButtonSets == {{}, {BUTTONS.A}}
FailAxes == {<<0, 0>>, <<0, -10>>, <<-10, 0>>}

\* The stick positions of a drive tick: every x with y released, every y with
\* x at or near the centre (0, 0.1, 0.2), and one diagonal.
DriveAxes ==
    {<<x, 0>> : x \in XValues} \cup ({0, 1, 2} \X YValues) \cup {<<10, -10>>}
CourseButtonSets == {{}} \cup {{k} : k \in KonamiIds}

\* ------------------------------------------------------------------ start
Init ==
    /\ pc = "start"
    /\ exit_status = -1
    /\ message = ""
    /\ toy = FALSE
    /\ player_id \in PlayerIds
    /\ speed = INITIAL_SPEED
    /\ color = Red
    /\ base_heading = 0
    /\ is_running = TRUE
    /\ calibration_mode = FALSE
    /\ game_on = FALSE
    /\ last_battery_check = 0
    /\ game_start_time = 0
    /\ konami_index = 0
    /\ cheat_mode = FALSE
    /\ now = 0
    /\ buttons = {}
    /\ x_axis = 0
    /\ y_axis = 0
    /\ cmds = << >>
    /\ front_led = LedUnset
    /\ events = 0
    /\ corrections = 0
    /\ script = << >>
    /\ script_events = 0

SessionVars == << speed, color, base_heading, is_running, calibration_mode,
                  game_on, last_battery_check, game_start_time, konami_index,
                  cheat_mode, front_led, corrections >>
InputVars == << buttons, x_axis, y_axis >>
HarnessVars == << script, script_events >>

\* if len(sys.argv) < 4: usage, sys.exit(1); else main(...)
ParseArgs ==
    /\ pc = "start"
    /\ \E enough \in BOOLEAN :
          /\ pc' = IF enough THEN "main" ELSE "exited"
          /\ exit_status' = IF enough THEN exit_status ELSE 1
          /\ message' = IF enough THEN "Connecting to" ELSE "Usage"
    /\ UNCHANGED << toy, player_id, SessionVars, InputVars, now, cmds, events,
                    HarnessVars >>

\* pygame.joystick.get_count() == 0: print and return; else the joystick and
\* the SpheroController are constructed.
JoystickInit ==
    /\ pc = "main"
    /\ \E count \in {0, 1} :
          /\ pc' = IF count = 0 THEN "exited" ELSE "joystick"
          /\ exit_status' = IF count = 0 THEN 0 ELSE exit_status
          /\ message' = IF count = 0 THEN "No joystick detected." ELSE message
    /\ UNCHANGED << toy, player_id, SessionVars, InputVars, now, cmds, events,
                    HarnessVars >>

\* discover_toy: the scanner finds the toy or raises; the exception is caught
\* and self.toy stays None.
DiscoverToy ==
    /\ pc = "joystick"
    /\ \E found \in BOOLEAN :
          /\ toy' = found
          /\ message' = IF found THEN "Connected to"
                        ELSE "Error discovering toy"
    /\ pc' = "discovered"
    /\ UNCHANGED << exit_status, player_id, SessionVars, InputVars, now, cmds,
                    events, HarnessVars >>

\* connect going on to SpheroEduAPI whether or not a toy was found.
ConnectWithoutToy ==
    /\ pc = "discovered"
    /\ \E api_ok \in BOOLEAN :
          /\ pc' = IF api_ok THEN "connected" ELSE "exited"
          /\ exit_status' = IF api_ok THEN exit_status ELSE 0
          /\ message' = IF ~api_ok THEN "Error connecting to toy API"
                        ELSE "API connected successfully."
    /\ UNCHANGED << toy, player_id, SessionVars, InputVars, now, cmds, events,
                    HarnessVars >>

\* connect: None without a toy or when SpheroEduAPI raises; main then returns.
Connect ==
    /\ pc = "discovered"
    /\ \E api_ok \in BOOLEAN :
          LET connected == toy /\ api_ok
          IN  /\ pc' = IF connected THEN "connected" ELSE "exited"
              /\ exit_status' = IF connected THEN exit_status ELSE 0
              /\ message' = IF ~toy THEN "No toy to connect to."
                            ELSE IF ~api_ok THEN "Error connecting to toy API"
                            ELSE "API connected successfully."
    /\ UNCHANGED << toy, player_id, SessionVars, InputVars, now, cmds, events,
                    HarnessVars >>

\* control_loop up to the while: display_number() once.
EnterLoop ==
    /\ pc = "connected"
    /\ \E fail \in 0..1 :
          LET r == display_number([Session EXCEPT !.fail = fail], player_id)
          IN  cmds' = r.cmds
    /\ pc' = "loop"
    /\ UNCHANGED << exit_status, message, toy, player_id, SessionVars,
                    InputVars, now, events, HarnessVars >>

Startup == ParseArgs \/ JoystickInit \/ DiscoverToy \/ Connect \/ EnterLoop

\* The state after a step of the session that ended as the record r at time t;
\* an exception that leaves the step ends the process with a traceback.
Apply(r, t) ==
    /\ corrections + r.corrected <= MaxCorrections
    /\ r.calibration_mode =>
          /\ r.base_heading >= -Deg(MaxTrim * HEADING_ADJUSTMENT)
          /\ r.base_heading <= Deg(360 + MaxTrim * HEADING_ADJUSTMENT)
    /\ speed' = r.speed
    /\ color' = r.color
    /\ base_heading' = r.base_heading
    /\ calibration_mode' = r.calibration_mode
    /\ game_on' = r.game_on
    /\ last_battery_check' = r.last_battery_check
    /\ game_start_time' = r.game_start_time
    /\ konami_index' = r.konami_index
    /\ cheat_mode' = r.cheat_mode
    /\ front_led' = r.front_led
    /\ cmds' = r.cmds
    /\ events' = r.events
    /\ corrections' = corrections + r.corrected
    /\ now' = t
    /\ pc' = IF r.exc THEN "crashed" ELSE pc
    /\ exit_status' = IF r.exc THEN 1 ELSE exit_status
    /\ UNCHANGED << message, toy, player_id, is_running >>

\* The heading the movement step of a tick tells the robot to face: what a
\* robot exactly on course answers to get_heading.
Facing(s, x, y) ==
    LET log == MovementControl(s, x, y).cmds
        turns == {i \in 1..Len(log) : log[i].op = "set_heading"}
    IN  IF turns = {} THEN 0 ELSE log[CHOOSE i \in turns : TRUE].arg

\* One iteration of the loop with the joystick state (pressed, x, y), dt
\* seconds after the previous one; failing says whether one of its actuator
\* calls fails, reads is what the robot may answer to get_heading.  The
\* robot's answers and the failing call are chosen only where the iteration
\* uses them.
IterationReading(pressed, x, y, dt, failing, reads) ==
    /\ pc = "loop"
    /\ is_running
    /\ now + dt <= MaxTime
    /\ LET t == now + dt
           due == t - last_battery_check >= BATTERY_CHECK_INTERVAL
           straight == Abs(y) > DEADZONE /\ Abs(x) < TIGHT_DEADZONE
       IN  \E voltage \in (IF due THEN Voltages ELSE {0}) :
           \E heading \in (IF straight THEN reads ELSE {0}) :
              LET calls == Len(LoopBody(Session, pressed, x, y, t, voltage,
                                        heading, player_id).cmds)
              IN  \E fail \in (IF failing THEN 1..calls ELSE {0}) :
                     Apply(LoopBody([Session EXCEPT !.fail = fail], pressed,
                                    x, y, t, voltage, heading, player_id), t)
    /\ buttons' = pressed
    /\ x_axis' = x
    /\ y_axis' = y

\* One iteration of the loop with a robot that answers get_heading with one of
\* HeadingReads.
Iteration(pressed, x, y, dt, failing) ==
    IterationReading(pressed, x, y, dt, failing, HeadingReads)

\* The ticks of a session, by what the operator does in them: buttons with
\* the stick released, the stick with no button held, and a tick in which
\* one actuator call fails.
TickButtons ==
    /\ \E pressed \in ButtonSets : Iteration(pressed, 0, 0, 0, FALSE)
    /\ UNCHANGED HarnessVars

TickDrive ==
    /\ \E xy \in DriveAxes : Iteration({}, xy[1], xy[2], 0, FALSE)
    /\ UNCHANGED HarnessVars

TickFail ==
    /\ \E pressed \in FailButtonSets : \E xy \in FailAxes :
          Iteration(pressed, xy[1], xy[2], 0, TRUE)
    /\ UNCHANGED HarnessVars

\* A tick of a session whose owner trims the heading: the stick, with no
\* button or one preset button held.
TickTrim ==
    /\ \E pressed \in DriveButtonSets : \E x \in {-10, -7, 0, 10} :
       \E y \in YValues :
          Iteration(pressed, x, y, 0, FALSE)
    /\ UNCHANGED HarnessVars

\* A tick after time has passed: the battery check becomes due.
TickClock ==
    /\ \E pressed \in DriveButtonSets : \E y \in {0, -10} :
       \E dt \in {0, TimeStep} : \E failing \in BOOLEAN :
          Iteration(pressed, 0, y, dt, failing)
    /\ UNCHANGED HarnessVars

\* A tick of a session whose robot is exactly on course: the stick forward,
\* released or back, centred or a little off centre, with no button or one
\* button of the sequence held, and get_heading answering the heading the
\* movement step commanded.
TickOnCourse ==
    /\ \E pressed \in CourseButtonSets : \E x \in {0, 1} :
       \E y \in {-10, 0, 10} :
          IterationReading(pressed, x, y, 0, FALSE, {Facing(Session, x, y)})
    /\ UNCHANGED HarnessVars

\* The detector harness: one button per tick, following KONAMI_CODE with at
\* most one wrong button inserted.  A button is wrong at a place when it is
\* not the symbol the sequence has there (after the last symbol: not the
\* first symbol, which the re-armed detector expects).
InsertAt(p, w) ==
    SubSeq(KONAMI_CODE, 1, p) \o << w >>
        \o SubSeq(KONAMI_CODE, p + 1, Len(KONAMI_CODE))

Expected(p) == KONAMI_CODE[IF p < Len(KONAMI_CODE) THEN p + 1 ELSE 1]

WrongAt(p) == {w \in ButtonIds : w # Expected(p)}

Scripts ==
    {KONAMI_CODE} \cup
    UNION {{InsertAt(p, w) : w \in WrongAt(p)} : p \in 0..Len(KONAMI_CODE)}

IsPrefix(sq, full) ==
    Len(sq) <= Len(full) /\ sq = SubSeq(full, 1, Len(sq))

FeedTick ==
    \E b \in ButtonIds :
        /\ \E full \in Scripts : IsPrefix(Append(script, b), full)
        /\ Iteration({b}, 0, 0, 0, FALSE)
        /\ script' = Append(script, b)
        /\ script_events' = script_events + events'

\* toggle_calibration(x_axis), called by the owner of the controller between
\* iterations of the loop.
ToggleCalibration ==
    /\ pc = "loop"
    /\ \E x \in {-10, 0, 10} : \E fail \in 0..3 :
          Apply(toggle_calibration([Session EXCEPT !.fail = fail], x, now), now)
    /\ UNCHANGED << InputVars, HarnessVars >>

Tick == TickButtons \/ TickDrive \/ TickFail

Next == Startup \/ Tick

\* The program: main and its control loop.
Spec == Init /\ [][Next]_vars

\* The program over a longer time, with the battery checks.
NextBattery == Startup \/ TickClock
SpecBattery == Init /\ [][NextBattery]_vars

\* The program with the stick released: buttons only.
NextButtons == Startup \/ TickButtons
SpecButtons == Init /\ [][NextButtons]_vars

\* The program with a robot that is exactly on course.
NextCourse == Startup \/ TickOnCourse
SpecCourse == Init /\ [][NextCourse]_vars

\* The loop driven by the detector harness.
NextSeq == Startup \/ FeedTick
SpecSeq == Init /\ [][NextSeq]_vars

\* The controller used as a class: its owner also calls toggle_calibration.
NextAPI == Startup \/ ToggleCalibration \/ TickTrim
SpecAPI == Init /\ [][NextAPI]_vars

\* ------------------------------------------------------------------ claims
InRange(h) == 0 <= h /\ h < Deg(360)

\* The last step was an iteration of the loop that ran to its end: its log
\* ends with the display call.
TickLog(log) == Len(log) > 0 /\ log[Len(log)].op = "set_matrix_character"

\* C1: once cheat mode is on it stays on whatever the buttons and the stick
\* do, the speed is 255 from the tick that turns it on, and no later tick
\* changes the color (the preset buttons are ignored).
C1_CheatModeLatch ==
    [][/\ cheat_mode => (cheat_mode' /\ color' = color)
       /\ cheat_mode' => speed' = 255]_vars

C1_PresetHeldInCheatMode ==
    /\ pc = "loop"
    /\ cheat_mode
    /\ buttons \cap PresetIds # {}
    /\ speed = 255

\* C2: no failing actuator call makes an exception leave control_loop.
C2_NoExceptionLeavesLoop == pc # "crashed"

\* C3 as claimed: with one wrong button inserted at any place p of the
\* sequence (0: before the first symbol, 10: after the last), no completion
\* event happens, and the cursor is 0 right after the wrong button.
C3_WrongSymbolNeverCompletes ==
    \A p \in 0..Len(KONAMI_CODE) : \A w \in WrongAt(p) :
        (IsPrefix(script, InsertAt(p, w)) /\ Len(script) > p) =>
            /\ script_events = 0
            /\ Len(script) = p + 1 => konami_index = 0

\* C3 as amended: a wrong button inserted between two symbols of the sequence
\* leaves no completion event; inserted before the first symbol or after the
\* last, the ten symbols still follow each other and there is exactly one
\* completion event; in every case the cursor is 0 right after the wrong
\* button.
C3_WrongSymbolInside ==
    \A p \in 0..Len(KONAMI_CODE) : \A w \in WrongAt(p) :
        (IsPrefix(script, InsertAt(p, w)) /\ Len(script) > p) =>
            /\ Len(script) = p + 1 => konami_index = 0
            /\ p \in 1..(Len(KONAMI_CODE) - 1) => script_events = 0
            /\ (p = 0 /\ Len(script) <= Len(KONAMI_CODE)) => script_events = 0
            /\ Len(script) = Len(KONAMI_CODE) + 1 /\ p \in {0, Len(KONAMI_CODE)}
                  => script_events = 1

C3_WrongSymbolFedInside ==
    /\ Len(script) = Len(KONAMI_CODE) + 1
    /\ script_events = 0
    /\ \E w \in WrongAt(5) : script = InsertAt(5, w)

\* C4: the ten symbols of the sequence, one per tick from cursor 0, give one
\* completion event, on the tenth tick, and leave the cursor at 0; before the
\* tenth tick there is none and the cursor counts the symbols fed.
C4_ExactSequenceCompletesOnce ==
    (pc = "loop" /\ IsPrefix(script, KONAMI_CODE)) =>
        IF Len(script) = Len(KONAMI_CODE)
        THEN script_events = 1 /\ events = 1 /\ konami_index = 0 /\ cheat_mode
        ELSE script_events = 0 /\ konami_index = Len(script) /\ ~cheat_mode

C4_SequenceFed ==
    script = KONAMI_CODE /\ script_events = 1 /\ konami_index = 0

\* C5: a tick that applies an auto-straighten correction leaves base_heading
\* in [0, 360).
C5_NormalizedAfterCorrection ==
    [][corrections' > corrections => InRange(base_heading')]_vars

\* C6: a calibration exit that returns leaves base_heading in [0, 360),
\* calibration_mode false and game_on true.
C6_ExitNormalizes ==
    [][(calibration_mode /\ ~calibration_mode' /\ pc' = "loop") =>
          (InRange(base_heading') /\ game_on')]_vars

C6_ExitedFromNegative ==
    /\ pc = "loop"
    /\ ~calibration_mode
    /\ game_on
    /\ base_heading = Deg(355)
    /\ cmds = << [op |-> "set_front_led", arg |-> Green, ok |-> TRUE] >>

\* C7: a tick of the loop in which the calibration toggle button is held
\* toggles calibration_mode; stated for the tick with every button held, so
\* whichever button the toggle is.
C7_ToggleHeldTogglesCalibration ==
    [][(pc = "loop" /\ pc' = "loop" /\ buttons' = ButtonIds) =>
          calibration_mode' # calibration_mode]_vars

\* C8: in a tick outside calibration the motion calls are the claimed
\* function of base_heading, the stick and the session speed, and a turn
\* leaves the session speed as it is (a preset button or the completed
\* sequence, not the turn, may change it in the same tick).
MotionCall(c) == c.op \in {"set_heading", "set_speed"}

\* The heading and speed calls of a log up to its heading read, where the
\* auto-straighten step begins.
MotionCalls(log) ==
    LET reads == {i \in 1..Len(log) : log[i].op = "get_heading"}
        upto  == IF reads = {} THEN Len(log)
                 ELSE (CHOOSE i \in reads : \A j \in reads : i <= j) - 1
    IN  SelectSeq(SubSeq(log, 1, upto), MotionCall)

ClaimedCall(op, arg) == [op |-> op, arg |-> arg, ok |-> TRUE]

ClaimedMotion(bh, x, y, spd) ==
    IF Abs(y) > 7
    THEN << ClaimedCall("set_heading",
                        IF y < 0 THEN bh % Deg(360) ELSE (bh + Deg(180)) % Deg(360)),
            ClaimedCall("set_speed", spd) >>
    ELSE IF Abs(x) > 7
    THEN << ClaimedCall("set_heading",
                        IF x > 0 THEN (bh + Deg(22)) % Deg(360)
                        ELSE (bh - Deg(22)) % Deg(360)),
            ClaimedCall("set_speed", 0) >>
    ELSE << ClaimedCall("set_speed", 0) >>

C8_MotionMapping ==
    [][(pc = "loop" /\ TickLog(cmds') /\ ~calibration_mode') =>
          /\ MotionCalls(cmds')
               = ClaimedMotion(base_heading, x_axis', y_axis', speed')
          /\ (Abs(y_axis') <= 7 /\ Abs(x_axis') > 7
                 /\ buttons' \cap PresetIds = {} /\ events' = 0)
                => speed' = speed]_vars

C8_LeftTurnAt90 ==
    /\ pc = "loop"
    /\ ~calibration_mode
    /\ base_heading = Deg(90)
    /\ x_axis = -10
    /\ y_axis = 0
    /\ MotionCalls(cmds)
         = << ClaimedCall("set_heading", Deg(68)), ClaimedCall("set_speed", 0) >>

\* C9: after a battery query that answers v, the color sent to the front LED
\* is green iff v >= 4.1, yellow iff 3.9 <= v < 4.1, orange iff
\* 3.7 <= v < 3.9, red iff v < 3.7.
ClaimedBatteryColor(v) ==
    IF v >= 410 THEN <<0, 255, 0>>
    ELSE IF v >= 390 THEN <<255, 255, 0>>
    ELSE IF v >= 370 THEN <<255, 100, 0>>
    ELSE <<255, 0, 0>>

C9_BatteryColorBands ==
    \A i \in 1..Len(cmds) :
        (cmds[i].op = "get_battery_voltage" /\ cmds[i].ok) =>
            /\ i < Len(cmds)
            /\ cmds[i + 1].op = "set_front_led"
            /\ cmds[i + 1].arg = ClaimedBatteryColor(cmds[i].arg)

C9_BoundaryReading ==
    /\ Len(cmds) >= 2
    /\ cmds[1] = [op |-> "get_battery_voltage", arg |-> 390, ok |-> TRUE]
    /\ cmds[2] = [op |-> "set_front_led", arg |-> Yellow, ok |-> TRUE]
    /\ front_led = Yellow

\* C10: outside cheat mode a tick applies the preset of the lowest-numbered
\* preset button held, speed and color both, and with none held leaves speed
\* and color as they were.
ClaimedPreset(b) ==
    CASE b = 0 -> << 50, <<255, 200, 0>> >>
      [] b = 1 -> << 70, <<255, 100, 0>> >>
      [] b = 2 -> << 100, <<255, 50, 0>> >>
      [] b = 3 -> << 200, <<255, 0, 0>> >>

C10_PresetPriority ==
    [][(pc = "loop" /\ ~cheat_mode') =>
          LET held == buttons' \cap 0..3
          IN  IF held = {} THEN speed' = speed /\ color' = color
              ELSE LET first == CHOOSE b \in held : \A c \in held : b <= c
                   IN  /\ speed' = ClaimedPreset(first)[1]
                       /\ color' = ClaimedPreset(first)[2]]_vars

C10_SeveralPresetsHeld ==
    /\ pc = "loop"
    /\ ~cheat_mode
    /\ buttons = {1, 2, 3}
    /\ speed = 70
    /\ color = <<255, 100, 0>>

\* C11: once discovery has failed (self.toy was left unset) the process never
\* gets past connect: it is not connected, not in the loop and has made no
\* actuator call.
C11_NoLoopWithoutToy ==
    (pc \notin {"start", "main", "joystick"} /\ ~toy) =>
        (pc \in {"discovered", "exited"} /\ cmds = << >>)

C11_ExitedAfterFailedDiscovery ==
    /\ pc = "exited"
    /\ ~toy
    /\ message = "No toy to connect to."
    /\ cmds = << >>

\* C12: a process that ended at startup because there was no joystick, no toy
\* or no connection ended with a non-zero exit status.
C12_StartupFailureExitsNonZero ==
    (pc = "exited" /\ message \in {"No joystick detected.",
                                   "No toy to connect to.",
                                   "Error connecting to toy API"})
        => exit_status > 0

\* C13: a tick whose battery query raises issues no front-LED command and
\* leaves the LED as it was, stamps last_battery_check with the tick's time,
\* and otherwise ends exactly as the same tick would without a battery check
\* due: same calls after the query, same session fields, still in the loop;
\* and no tick queries the battery less than 30 seconds after the stamp.
FailedQuery(log) ==
    /\ Len(log) > 0
    /\ log[1].op = "get_battery_voltage"
    /\ ~log[1].ok

Queries(log) == {i \in 1..Len(log) : log[i].op = "get_battery_voltage"}

LedCommands(log) == {i \in 1..Len(log) : log[i].op = "set_front_led"}

C13_FailedBatteryCheck ==
    [][/\ (pc = "loop" /\ FailedQuery(cmds')) =>
             LET rest == LoopBody([Session EXCEPT !.last_battery_check = now'],
                                  buttons', x_axis', y_axis', now', 0, 0,
                                  player_id)
             IN  /\ pc' = "loop"
                 /\ LedCommands(cmds') = {}
                 /\ front_led' = front_led
                 /\ last_battery_check' = now'
                 /\ Tail(cmds') = rest.cmds
                 /\ TickLog(cmds')
                 /\ << speed', color', base_heading', calibration_mode',
                       game_on', game_start_time', konami_index', cheat_mode' >>
                      = << rest.speed, rest.color, rest.base_heading,
                           rest.calibration_mode, rest.game_on,
                           rest.game_start_time, rest.konami_index,
                           rest.cheat_mode >>
       /\ (pc = "loop" /\ now' - last_battery_check < 30) => Queries(cmds') = {}
      ]_vars

C13_LedKeptAfterFailedQuery ==
    /\ pc = "loop"
    /\ FailedQuery(cmds)
    /\ now = 60
    /\ last_battery_check = 60
    /\ front_led = Orange
    /\ y_axis = -10
    /\ Len(cmds) = 4

\* C14: a tick with one button b pressed and cursor c: if b is the c-th symbol
\* of the sequence (counting from 0) the cursor becomes c + 1, or 0 with one
\* completion event when c + 1 = 10; otherwise the cursor becomes 0 with no
\* completion event, also when b is UP.
C14_CursorStep ==
    [][(pc = "loop" /\ pc' = "loop" /\ Cardinality(buttons') = 1) =>
          LET b == CHOOSE k \in buttons' : TRUE
              c == konami_index
          IN  IF b = KONAMI_CODE[c + 1]
              THEN IF c + 1 = 10
                   THEN konami_index' = 0 /\ events' = 1
                   ELSE konami_index' = c + 1 /\ events' = 0
              ELSE konami_index' = 0 /\ events' = 0]_vars

C14_UpAfterTwoUps ==
    /\ pc = "loop"
    /\ script = << BUTTONS.UP, BUTTONS.UP, BUTTONS.UP >>
    /\ buttons = {BUTTONS.UP}
    /\ konami_index = 0

\* C15: the cursor after a tick is the cursor before it run through the
\* pressed buttons in ascending order of their ids, each press a match
\* (advance, back to 0 at the tenth) or a mismatch (back to 0).
ClaimedPress(c, b) == IF b = KONAMI_CODE[c + 1] THEN (c + 1) % 10 ELSE 0

RECURSIVE ClaimedCursor(_, _)
ClaimedCursor(c, held) ==
    IF held = {} THEN c
    ELSE LET b == CHOOSE k \in held : \A j \in held : k <= j
         IN  ClaimedCursor(ClaimedPress(c, b), held \ {b})

C15_TableOrder ==
    [][(pc = "loop" /\ pc' = "loop") =>
          konami_index' = ClaimedCursor(konami_index, buttons')]_vars

C15_TwoAdvancesInOneTick ==
    /\ pc = "loop"
    /\ buttons = {BUTTONS.UP, BUTTONS.DOWN}
    /\ konami_index = 3

\* C16: in a tick that returns, base_heading changes only when cheat mode is
\* on, |y| > 0.7, |x| < 0.2 and the heading read differs from base_heading by
\* more than 3 degrees; then it changes by exactly -0.2 times that difference
\* and exactly one heading command follows the read, with the new
\* base_heading; in every other tick base_heading stays and no heading
\* command follows a read.
HeadingReadsOf(log) == {i \in 1..Len(log) : log[i].op = "get_heading"}

ExtraHeadingCommands(log) ==
    {i \in 1..Len(log) :
        log[i].op = "set_heading" /\ \E r \in HeadingReadsOf(log) : r < i}

C16_ProportionalCorrection ==
    [][(pc = "loop" /\ TickLog(cmds')) =>
          LET reads == HeadingReadsOf(cmds')
              extra == ExtraHeadingCommands(cmds')
              straight == cheat_mode' /\ Abs(y_axis') > 7 /\ Abs(x_axis') < 2
              off == \E r \in reads :
                        Abs(cmds'[r].arg - base_heading) > Deg(3)
          IN  /\ Cardinality(reads) = IF straight THEN 1 ELSE 0
              /\ IF straight /\ off
                 THEN /\ \A r \in reads :
                            5 * (base_heading' - base_heading)
                               = -(cmds'[r].arg - base_heading)
                      /\ Cardinality(extra) = 1
                      /\ \A i \in extra : cmds'[i].arg = base_heading'
                 ELSE /\ base_heading' = base_heading
                      /\ extra = {}]_vars

C16_FifthOfTenDegrees ==
    /\ pc = "loop"
    /\ cheat_mode
    /\ HeadingReadsOf(cmds) # {}
    /\ \A r \in HeadingReadsOf(cmds) : cmds[r].arg = Deg(10)
    /\ base_heading = -Deg(2)
    /\ Cardinality(ExtraHeadingCommands(cmds)) = 1

\* C17: a tick that begins with calibration_mode true commands speed 0, then
\* a red front LED, then the heading base_heading after a trim of -5 degrees
\* for x < -0.7, +5 for x > 0.7 and 0 otherwise, and nothing else before the
\* display, whatever y is; calibration_mode stays true and the session speed
\* is left as it was (a preset button held in the tick sets it as in any
\* tick).
ClaimedTrim(x) == IF x < -7 THEN -Deg(5) ELSE IF x > 7 THEN Deg(5) ELSE 0

C18_SpeedValues ==
    pc = "loop" =>
        /\ speed \in {50, 70, 100, 200, 255}
        /\ speed = 255 <=> cheat_mode

C18_CompletedInOneTick ==
    /\ pc = "loop"
    /\ buttons = {BUTTONS.B, BUTTONS.A}
    /\ events = 1
    /\ cheat_mode
    /\ speed = 255

\* C19: between ticks the cursor is in 0..9, and the process never ends on a
\* read of KONAMI_CODE past its end: whenever an exception has left the loop,
\* it was raised by the last actuator call of the log.
C19_CursorInRange ==
    /\ pc = "loop" => konami_index \in 0..9
    /\ pc = "crashed" => (cmds # << >> /\ ~cmds[Len(cmds)].ok)

C19_RearmedAfterFullMatch ==
    /\ pc = "loop"
    /\ events = 1
    /\ cheat_mode
    /\ buttons = {BUTTONS.A}
    /\ konami_index = 0

\* C20: a tick that reads back from the robot exactly the heading its
\* movement step commanded (modulo 360) leaves base_heading as it was.
C20_NoDriftOnCourse ==
    [][(/\ pc = "loop"
        /\ TickLog(cmds')
        /\ HeadingReadsOf(cmds') # {}
        /\ \A r \in HeadingReadsOf(cmds') : \E i \in 1..(r - 1) :
              /\ cmds'[i].op = "set_heading"
              /\ cmds'[r].arg % Deg(360) = cmds'[i].arg % Deg(360))
          => base_heading' = base_heading]_vars

=============================================================================
